---- MODULE Spec2Model ----
(***************************************************************************)
(* A model of rsub.py: the per-connection read loop (Session.run and       *)
(* Session._download), the editor callbacks (Session.on_done,              *)
(* RSubEventListener.on_post_save_async / on_close) and the two outbound   *)
(* messages (Session.send_save, Session.close).                            *)
(*                                                                         *)
(* Bytes are one-character strings, byte strings are sequences of them.    *)
(* A connection thread takes one step per readline() call; an editor       *)
(* callback is one step.                                                   *)
(***************************************************************************)
EXTENDS Integers, Sequences, FiniteSets, TLC

\* Number of connections the listener accepts.
NConns == 2
\* Largest byte count announced by a `data:` header of the parser inputs.
MaxN == 3
\* Number of buffer-saved events the editor delivers.
MaxSaves == 1

Conns == 1..NConns

-----------------------------------------------------------------------------
(* Byte-string helpers: bytes.strip, str.split, int, str, readline.        *)

NL == "\n"

\* The ASCII whitespace bytes.strip() and str.strip() remove.
WS == {" ", "\n", "\t", "\r"}

Digits == <<"0", "1", "2", "3", "4", "5", "6", "7", "8", "9">>

DigitSet == {Digits[i] : i \in 1..10}

RECURSIVE Str(_)
\* The string a byte sequence spells.
Str(s) == IF s = <<>> THEN "" ELSE Head(s) \o Str(Tail(s))

RECURSIVE LStrip(_)
LStrip(s) == IF s # <<>> /\ Head(s) \in WS THEN LStrip(Tail(s)) ELSE s

RECURSIVE RStrip(_)
RStrip(s) ==
    IF s # <<>> /\ s[Len(s)] \in WS THEN RStrip(SubSeq(s, 1, Len(s) - 1)) ELSE s

Strip(s) == RStrip(LStrip(s))

\* Index of the first occurrence of byte ch in s, 0 when there is none.
IndexOf(s, ch) ==
    IF \E i \in 1..Len(s) : s[i] = ch
    THEN CHOOSE i \in 1..Len(s) : s[i] = ch /\ \A j \in 1..(i - 1) : s[j] # ch
    ELSE 0

RECURSIVE SplitOn(_, _)
\* s.split(ch): the pieces of s between occurrences of ch.
SplitOn(s, ch) ==
    LET i == IndexOf(s, ch)
    IN  IF i = 0 THEN <<s>>
        ELSE <<SubSeq(s, 1, i - 1)>> \o SplitOn(SubSeq(s, i + 1, Len(s)), ch)

\* s.split(ch, 1): at most two pieces, cut at the first ch.
Split1(s, ch) ==
    LET i == IndexOf(s, ch)
    IN  IF i = 0 THEN <<s>>
        ELSE <<SubSeq(s, 1, i - 1), SubSeq(s, i + 1, Len(s))>>

DigitVal(ch) == CHOOSE d \in 0..9 : Digits[d + 1] = ch

\* int(s) accepts an optional sign followed by decimal digits.
Unsigned(s) == IF s # <<>> /\ Head(s) \in {"+", "-"} THEN Tail(s) ELSE s

IsInt(s) == Unsigned(s) # <<>> /\ \A i \in 1..Len(Unsigned(s)) : Unsigned(s)[i] \in DigitSet

RECURSIVE ParseNat(_)
ParseNat(s) ==
    IF s = <<>> THEN 0
    ELSE ParseNat(SubSeq(s, 1, Len(s) - 1)) * 10 + DigitVal(s[Len(s)])

ParseInt(s) ==
    IF s # <<>> /\ Head(s) = "-" THEN 0 - ParseNat(Unsigned(s)) ELSE ParseNat(Unsigned(s))

RECURSIVE IntToStr(_)
\* str(n) for n >= 0, as bytes.
IntToStr(n) ==
    IF n < 10 THEN <<Digits[n + 1]>>
    ELSE IntToStr(n \div 10) \o <<Digits[(n % 10) + 1]>>

\* sockfile.readline() on the unread bytes buf: through the first newline, or
\* everything that is left once the stream has ended.
HasLine(buf) == IndexOf(buf, NL) > 0

LineOf(buf) == IF HasLine(buf) THEN SubSeq(buf, 1, IndexOf(buf, NL)) ELSE buf

RestOf(buf) == IF HasLine(buf) THEN SubSeq(buf, IndexOf(buf, NL) + 1, Len(buf)) ELSE <<>>

-----------------------------------------------------------------------------
(* pathlib / os.path on POSIX.                                             *)

\* pathlib.Path(s): the root flag and the components of s; empty and "."
\* components are dropped, ".." is kept.
PathOf(s) ==
    LET segs == SplitOn(s, "/")
        Keep(x) == x # <<>> /\ x # <<".">>
        kept == SelectSeq(segs, Keep)
    IN  [root |-> s # <<>> /\ Head(s) = "/",
         parts |-> [i \in 1..Len(kept) |-> Str(kept[i])]]

\* Path.parent
Parent(p) ==
    [p EXCEPT !.parts = IF Len(p.parts) = 0 THEN <<>>
                        ELSE SubSeq(p.parts, 1, Len(p.parts) - 1)]

\* p / q: an absolute right operand replaces the left one.
JoinPath(p, q) ==
    IF q.root THEN q ELSE [root |-> p.root, parts |-> p.parts \o q.parts]

\* os.path.basename(s): what follows the last "/".
BaseName(s) == LET segs == SplitOn(s, "/") IN segs[Len(segs)]

\* A derivation that kept the leading "/" of real-path.
LStripNothing(s) == s

\* s.lstrip("/")
LStripSlash(s) ==
    IF \A i \in 1..Len(s) : s[i] = "/" THEN <<>>
    ELSE SubSeq(s, (CHOOSE i \in 1..Len(s) : s[i] # "/" /\ \A j \in 1..(i - 1) : s[j] = "/"), Len(s))

RECURSIVE ResolveParts(_, _)
ResolveParts(acc, parts) ==
    IF parts = <<>> THEN acc
    ELSE IF Head(parts) = ".."
         THEN ResolveParts(IF acc = <<>> THEN <<>> ELSE SubSeq(acc, 1, Len(acc) - 1), Tail(parts))
         ELSE ResolveParts(Append(acc, Head(parts)), Tail(parts))

\* The file-system object an absolute path names: its components with ".."
\* followed.
Resolve(p) == ResolveParts(<<>>, p.parts)

\* session_dir: the temporary directory plugin_loaded creates.
session_dir == [root |-> TRUE, parts |-> <<"tmp", "rsub">>]

-----------------------------------------------------------------------------
(* What a peer sends: header lines, a `data: N` line, body bytes, and      *)
(* possibly more bytes later.                                              *)

K_display_name == <<"d", "i", "s", "p", "l", "a", "y", "-", "n", "a", "m", "e">>
K_real_path == <<"r", "e", "a", "l", "-", "p", "a", "t", "h">>
K_token == <<"t", "o", "k", "e", "n">>
K_data == <<"d", "a", "t", "a">>
OpenWord == <<"o", "p", "e", "n">>
V_display_f == <<"h", ":", "/", "d", "/", "f">>
V_display_g == <<"h", ":", "/", "d", "/", "g">>
V_real_f == <<"/", "d", "/", "f">>
V_real_g == <<"/", "d", "/", "g">>
V_display_xg == <<"h", ":", "/", "x", "/", "g">>
V_display_abs == <<"/", "e", ":", "/", "d", "/", "f">>
V_display_rel == <<"h", ":", "f">>
V_display_dir == <<"h", ":", "/", "d", "/">>
V_real_up == <<"/", ".", ".", "/", ".", ".", "/", "f">>
V_real_rel == <<"f">>
V_junk == <<"j", "u", "n", "k">>
V_nocolon == <<"h", "f">>

HeaderLine(key, val) == key \o <<":", " ">> \o val \o <<NL>>

DataLine(n) == HeaderLine(K_data, IntToStr(n))

OpenLine == OpenWord \o <<NL>>

\* The headers of a well-formed request for remote file f.
StdHeaders ==
    OpenLine \o HeaderLine(K_display_name, V_display_f)
             \o HeaderLine(K_real_path, V_real_f) \o HeaderLine(K_token, <<"T">>)

\* Header blocks that are not the well-formed one.
OddHeaders ==
    { <<>>,                                                   \* nothing before `data`
      <<NL>> \o StdHeaders,                                   \* a blank line first
      HeaderLine(K_token, <<"T">>),                           \* only a token
      HeaderLine(K_display_name, V_display_f)
          \o HeaderLine(K_real_path, V_real_f),               \* no token
      V_junk \o <<NL>> \o StdHeaders,                         \* a line without ":"
      HeaderLine(K_display_name, V_nocolon)
          \o HeaderLine(K_real_path, V_real_f) }              \* display-name without ":"

BodyBytes == {"a", NL}

RECURSIVE SeqsOfLen(_)
SeqsOfLen(n) ==
    IF n = 0 THEN {<<>>}
    ELSE {Append(s, b) : s \in SeqsOfLen(n - 1), b \in BodyBytes}

\* Bodies of at most n bytes, every placement of newlines.
BodiesUpTo(n) == UNION {SeqsOfLen(k) : k \in 0..n}

\* What the peer may send after the body: nothing, the "." terminator of the
\* historical protocol, or a further `data` header.
Tails == { <<>>, <<NL, ".", NL>>, DataLine(0) }

NoReq == [pre |-> <<>>, body |-> <<>>, tail |-> <<>>]

\* A request of display-name, real-path, one more header line and the body.
SysRequest(display, real, tok, body) ==
    [pre |-> HeaderLine(K_display_name, display) \o HeaderLine(K_real_path, real)
                 \o tok \o DataLine(Len(body)),
     body |-> body, tail |-> <<>>]

\* Requests that differ in their display-name and real-path headers: display
\* path and real path in different directories, a label that is an absolute
\* path, a real path with ".." segments, paths without a directory, and a
\* display path that ends in "/".
PathRequests ==
    { SysRequest(d, r, HeaderLine(K_token, <<"T">>), <<"a", NL>>) :
          d \in {V_display_f, V_display_xg, V_display_abs, V_display_rel, V_display_dir},
          r \in {V_real_f, V_real_up, V_real_rel} }

\* The inputs of the single-connection (parser) specification.
ParseRequests ==
    { [pre |-> StdHeaders \o DataLine(n), body |-> b, tail |-> t] :
          n \in 0..MaxN, b \in BodiesUpTo(MaxN), t \in Tails }
    \cup { [pre |-> h \o DataLine(2), body |-> <<"a", NL>>, tail |-> <<>>] : h \in OddHeaders }
    \cup { [pre |-> StdHeaders \o HeaderLine(K_data, <<"x">>), body |-> <<>>, tail |-> <<>>] }
    \cup PathRequests

\* The inputs of the multi-connection specification: two tokens, two remote
\* files, a request that carries no token, and one with a line without ":"
\* where the token header would be.
SysRequests ==
    { SysRequest(V_display_f, V_real_f, HeaderLine(K_token, <<"T">>), <<"a", NL>>),
      SysRequest(V_display_f, V_real_f, HeaderLine(K_token, <<"U">>), <<"b", NL>>),
      SysRequest(V_display_g, V_real_g, HeaderLine(K_token, <<"T">>), <<"a", NL>>),
      SysRequest(V_display_f, V_real_f, <<>>, <<"a", NL>>),
      SysRequest(V_display_f, V_real_f, V_junk \o <<NL>>, <<"a", NL>>) }

\* What the user may have typed before saving a buffer.
Edits == { <<>>, <<"x", NL, "y">> }

-----------------------------------------------------------------------------
VARIABLES
    pc,           \* connection thread: "idle", "run", "body", "returned", "raised"
    req,          \* what the peer of the connection sends
    inbuf,        \* bytes received and not yet read
    net,          \* bytes the peer has yet to send
    eof,          \* the peer has closed the stream
    env,          \* Session.env
    parse_done,   \* Session.parse_done
    total_size,   \* _download: total_size
    done_size,    \* _download: done_size
    temp,         \* _download: content of the mkstemp file
    local_dir,    \* Session.local_dir, <<>> for None
    local_path,   \* Session.local_path, <<>> for None
    out,          \* the sends made on the socket, in order
    closed,       \* Session.close has shut down and closed the socket
    srvClosed,    \* socketserver has shut down the request after handle()
    files,        \* the file system: resolved path -> content
    dirs,         \* the file system: directories
    timeouts,     \* callbacks queued by sublime.set_timeout
    SESSIONS,     \* view id -> session
    views,        \* the editor's open views: view id -> file
    nextView,     \* the id the editor gives its next new view
    view,         \* the view open_file returned to the session's on_done, 0 before
    asyncQ,       \* on_post_save_async events not yet delivered
    nsaves,       \* buffer-saved events so far
    closeCalls,   \* calls of Session.close on the session
    staged,       \* the content _download renamed into place
    stagings,     \* how often _download renamed a file into place
    scheduled,    \* how often run called sublime.set_timeout(self.on_done)
    eofRead       \* a readline() of the connection thread returned b""

connVars == <<pc, req, inbuf, net, eof, env, parse_done, total_size, done_size,
              temp, local_dir, local_path, staged, stagings, scheduled, eofRead>>

vars == <<pc, req, inbuf, net, eof, env, parse_done, total_size, done_size, temp,
          local_dir, local_path, out, closed, srvClosed, files, dirs, timeouts,
          SESSIONS, views, nextView, view, asyncQ, nsaves, closeCalls, staged,
          stagings, scheduled, eofRead>>

\* The empty mapping.
Empty == [x \in {} |-> 0]

Put(f, k, v) == [x \in DOMAIN f \cup {k} |-> IF x = k THEN v ELSE f[x]]

Remove(f, k) == [x \in DOMAIN f \ {k} |-> f[x]]

Init ==
    /\ pc = [c \in Conns |-> "idle"]
    /\ req = [c \in Conns |-> NoReq]
    /\ inbuf = [c \in Conns |-> <<>>]
    /\ net = [c \in Conns |-> <<>>]
    /\ eof = [c \in Conns |-> FALSE]
    /\ env = [c \in Conns |-> Empty]
    /\ parse_done = [c \in Conns |-> FALSE]
    /\ total_size = [c \in Conns |-> 0]
    /\ done_size = [c \in Conns |-> 0]
    /\ temp = [c \in Conns |-> <<>>]
    /\ local_dir = [c \in Conns |-> <<>>]
    /\ local_path = [c \in Conns |-> <<>>]
    /\ out = [c \in Conns |-> <<>>]
    /\ closed = [c \in Conns |-> FALSE]
    /\ srvClosed = [c \in Conns |-> FALSE]
    /\ files = Empty
    /\ dirs = {<<>>, <<"tmp">>, Resolve(session_dir)}
    /\ timeouts = <<>>
    /\ SESSIONS = Empty
    /\ views = Empty
    /\ nextView = 1
    /\ view = [c \in Conns |-> 0]
    /\ asyncQ = <<>>
    /\ nsaves = 0
    /\ closeCalls = [c \in Conns |-> 0]
    /\ staged = [c \in Conns |-> <<>>]
    /\ stagings = [c \in Conns |-> 0]
    /\ scheduled = [c \in Conns |-> 0]
    /\ eofRead = [c \in Conns |-> FALSE]

-----------------------------------------------------------------------------
(* The connection thread: ConnectionHandler.handle, Session.run and        *)
(* Session._download.  A step record st holds the session fields and the   *)
(* file system as the thread sees and leaves them.                         *)

\* sublime.version(), as the editor reports it.
Version == "4169"

\* A handler that greeted without a line end.
GreetingUnterminated == "Sublime Text " \o Version \o " (rsub plugin)"

\* The line handle() sends first.
Greeting == "Sublime Text " \o Version \o " (rsub plugin)\n"

Cur(c) ==
    [pc |-> pc[c], env |-> env[c], parse_done |-> parse_done[c],
     total_size |-> total_size[c], done_size |-> done_size[c], temp |-> temp[c],
     local_dir |-> local_dir[c], local_path |-> local_path[c],
     dirs |-> dirs, files |-> files, renamed |-> FALSE, set_timeout |-> FALSE]

\* An exception leaves run: the thread ends.
Raise(st) == [st EXCEPT !.pc = "raised"]

\* Path.mkdir(parents=True, exist_ok=True) fails when the path, or a directory
\* on the way to it, is an existing file.
Prefixes(p) == {[p EXCEPT !.parts = SubSeq(p.parts, 1, k)] : k \in 0..Len(p.parts)}

MkdirOk(p, fs) == \A q \in Prefixes(p) : Resolve(q) \notin DOMAIN fs

MkdirDirs(p, ds) == ds \cup {Resolve(q) : q \in Prefixes(p)}

\* A thread that scheduled the editor open without renaming the file into place.
FinishUnstaged(st) ==
    [st EXCEPT !.parse_done = TRUE, !.set_timeout = TRUE, !.pc = "run"]

\* temp_file.rename(self.local_path), then the rest of run's `data` branch.
Finish(st) ==
    LET target == Resolve(st.local_path[1])
    IN  IF target \in st.dirs THEN Raise(st)
        ELSE [st EXCEPT !.files = Put(st.files, target, st.temp),
                        !.renamed = TRUE,
                        !.parse_done = TRUE,
                        !.set_timeout = TRUE,
                        !.pc = "run"]

\* The guard of the body loop's enclosing `if`.
ReadsBody(total) == total > 1

\* What one iteration of the body loop writes to the temporary file.
BodyChunk(line, done, total) ==
    IF done + Len(line) > total THEN SubSeq(line, 1, total - done) ELSE line

\* _download up to its first readline(): the staged path, the directories,
\* the temporary file; all of it when no body is read.
Download(st) ==
    LET e == st.env
    IN  IF ~IsInt(e["data"]) THEN Raise(st)
        ELSE IF "real-path" \notin DOMAIN e THEN Raise(st)
        ELSE IF "display-name" \notin DOMAIN e THEN Raise(st)
        ELSE IF Len(Split1(e["display-name"], ":")) < 2 THEN Raise(st)
        ELSE
          LET total == ParseInt(e["data"])
              real_path == Parent(PathOf(LStripSlash(e["real-path"])))
              remote == Split1(e["display-name"], ":")[1]
              name == BaseName(Split1(e["display-name"], ":")[2])
              ldir == JoinPath(JoinPath(session_dir, PathOf(remote)), real_path)
              st1 == [st EXCEPT !.total_size = total, !.local_dir = <<ldir>>]
          IN  IF ~MkdirOk(ldir, st.files) THEN Raise(st1)
              ELSE
                LET st2 == [st1 EXCEPT !.dirs = MkdirDirs(ldir, st.dirs),
                                       !.local_path = <<JoinPath(ldir, PathOf(name))>>,
                                       !.temp = <<>>,
                                       !.done_size = 0]
                IN  IF ReadsBody(total) THEN [st2 EXCEPT !.pc = "body"]
                    ELSE Finish(st2)

\* One iteration of _download's loop on the line readline() returned.
DownloadStep(st, line) ==
    LET st1 == [st EXCEPT !.temp = st.temp \o BodyChunk(line, st.done_size, st.total_size),
                          !.done_size = st.done_size + Len(line)]
    IN  IF st1.done_size < st1.total_size THEN st1 ELSE Finish(st1)

\* A loop that went on parsing after a complete request.
DiscardsNever(st) == FALSE

\* run's test for a request that is already complete.
Discards(st) == st.parse_done

\* A loop that skipped a line it could not split.
RunStepSkipsMalformed(st, line) ==
    IF Len(line) = 0 THEN [st EXCEPT !.pc = "returned"]
    ELSE IF Discards(st) THEN st
    ELSE IF Strip(line) = OpenWord THEN st
    ELSE
      LET kv == Split1(Strip(line), ":")
      IN  IF Len(kv) < 2 THEN st
          ELSE
            LET st1 == [st EXCEPT !.env = Put(st.env, Str(kv[1]), Strip(kv[2]))]
            IN  IF Str(kv[1]) = "data" THEN Download(st1) ELSE st1

\* One iteration of run's loop on the line readline() returned.
RunStep(st, line) ==
    IF Len(line) = 0 THEN [st EXCEPT !.pc = "returned"]
    ELSE IF Discards(st) THEN st
    ELSE IF Strip(line) = OpenWord THEN st
    ELSE
      LET kv == Split1(Strip(line), ":")
      IN  IF Len(kv) < 2 THEN Raise(st)
          ELSE
            LET st1 == [st EXCEPT !.env = Put(st.env, Str(kv[1]), Strip(kv[2]))]
            IN  IF Str(kv[1]) = "data" THEN Download(st1) ELSE st1

\* readline() returns once a whole line has arrived or the stream has ended
\* (the peer closed it, or Session.close shut the socket down).
ReadReady(c) == HasLine(inbuf[c]) \/ eof[c] \/ closed[c]

\* The step's effect on the session and on what it shares with other threads.
\* When handle() ends, socketserver shuts the request down and closes it.
Commit(c, st, line) ==
    /\ pc' = [pc EXCEPT ![c] = st.pc]
    /\ env' = [env EXCEPT ![c] = st.env]
    /\ parse_done' = [parse_done EXCEPT ![c] = st.parse_done]
    /\ total_size' = [total_size EXCEPT ![c] = st.total_size]
    /\ done_size' = [done_size EXCEPT ![c] = st.done_size]
    /\ temp' = [temp EXCEPT ![c] = st.temp]
    /\ local_dir' = [local_dir EXCEPT ![c] = st.local_dir]
    /\ local_path' = [local_path EXCEPT ![c] = st.local_path]
    /\ dirs' = st.dirs
    /\ files' = st.files
    /\ srvClosed' = [srvClosed EXCEPT ![c] = st.pc \in {"returned", "raised"}]
    /\ timeouts' = IF st.set_timeout THEN Append(timeouts, c) ELSE timeouts
    /\ scheduled' = [scheduled EXCEPT ![c] = @ + (IF st.set_timeout THEN 1 ELSE 0)]
    /\ stagings' = [stagings EXCEPT ![c] = @ + (IF st.renamed THEN 1 ELSE 0)]
    /\ staged' = [staged EXCEPT ![c] = IF st.renamed THEN st.temp ELSE @]
    /\ eofRead' = [eofRead EXCEPT ![c] = @ \/ line = <<>>]

\* A peer connects and sends its request; handle() creates the session and
\* sends the greeting.  Connections are numbered in the order of their accept.
Connect(c, r) ==
    /\ pc[c] = "idle"
    /\ IF c = 1 THEN TRUE ELSE pc[c - 1] # "idle"
    /\ pc' = [pc EXCEPT ![c] = "run"]
    /\ req' = [req EXCEPT ![c] = r]
    /\ inbuf' = [inbuf EXCEPT ![c] = r.pre \o r.body]
    /\ net' = [net EXCEPT ![c] = r.tail]
    /\ out' = [out EXCEPT ![c] = <<Greeting>>]
    /\ UNCHANGED <<eof, env, parse_done, total_size, done_size, temp, local_dir,
                   local_path, closed, srvClosed, files, dirs, timeouts, SESSIONS,
                   views, nextView, view, asyncQ, nsaves, closeCalls, staged,
                   stagings, scheduled, eofRead>>

\* The peer sends the rest of what it has to send.
PeerSend(c) ==
    /\ pc[c] # "idle"
    /\ net[c] # <<>>
    /\ ~eof[c]
    /\ inbuf' = [inbuf EXCEPT ![c] = @ \o net[c]]
    /\ net' = [net EXCEPT ![c] = <<>>]
    /\ UNCHANGED <<pc, req, eof, env, parse_done, total_size, done_size, temp,
                   local_dir, local_path, out, closed, srvClosed, files, dirs,
                   timeouts, SESSIONS, views, nextView, view, asyncQ, nsaves,
                   closeCalls, staged, stagings, scheduled, eofRead>>

\* The peer closes the connection.
PeerClose(c) ==
    /\ pc[c] # "idle"
    /\ ~eof[c]
    /\ eof' = [eof EXCEPT ![c] = TRUE]
    /\ UNCHANGED <<pc, req, inbuf, net, env, parse_done, total_size, done_size,
                   temp, local_dir, local_path, out, closed, srvClosed, files,
                   dirs, timeouts, SESSIONS, views, nextView, view, asyncQ,
                   nsaves, closeCalls, staged, stagings, scheduled, eofRead>>

\* One readline() of run's loop and what run does with the line.
RunRead(c) ==
    /\ pc[c] = "run"
    /\ ReadReady(c)
    /\ inbuf' = [inbuf EXCEPT ![c] = RestOf(inbuf[c])]
    /\ \E st \in {RunStep(Cur(c), LineOf(inbuf[c]))} : Commit(c, st, LineOf(inbuf[c]))
    /\ UNCHANGED <<req, net, eof, out, closed, SESSIONS, views, nextView, view,
                   asyncQ, nsaves, closeCalls>>

\* One readline() of _download's loop and what the loop does with the line.
DownloadRead(c) ==
    /\ pc[c] = "body"
    /\ ReadReady(c)
    /\ inbuf' = [inbuf EXCEPT ![c] = RestOf(inbuf[c])]
    /\ \E st \in {DownloadStep(Cur(c), LineOf(inbuf[c]))} : Commit(c, st, LineOf(inbuf[c]))
    /\ UNCHANGED <<req, net, eof, out, closed, SESSIONS, views, nextView, view,
                   asyncQ, nsaves, closeCalls>>

-----------------------------------------------------------------------------
(* The editor side: Session.close, Session.send_save, Session.on_done and  *)
(* the RSubEventListener callbacks.                                        *)

\* socket.send raises once the socket has been shut down, by Session.close
\* or by socketserver after the connection thread ended.
Writable(s) == ~closed[s] /\ ~srvClosed[s]

HasToken(s) == "token" \in DOMAIN env[s]

TokenLine(s) == "token: " \o Str(env[s]["token"]) \o "\n"

\* A close that sent the token ahead of the command.
CloseMsgsTokenFirst(s) == <<TokenLine(s), "close\n", "\n">>

\* The three sends of Session.close.
CloseMsgs(s) == <<"close\n", TokenLine(s), "\n">>

\* A save that announced one byte more than it sent.
SaveMsgsLongerLen(s, data) ==
    <<"save\n", TokenLine(s), "data: " \o Str(IntToStr(Len(data) + 1)) \o "\n", Str(data), "\n">>

\* The sends of Session.send_save for file content data.
SaveMsgs(s, data) ==
    <<"save\n", TokenLine(s), "data: " \o Str(IntToStr(Len(data))) \o "\n", Str(data), "\n">>

\* The file the session's local_path names.
StagedFile(s) == Resolve(local_path[s][1])

\* Session.close(keep): what it leaves of the socket and the file system, and
\* whether an exception left it.
Close(s, keep) ==
    IF ~Writable(s)
    THEN [out |-> out[s], closed |-> closed[s], files |-> files, raised |-> TRUE]
    ELSE IF ~HasToken(s)
    THEN [out |-> Append(out[s], "close\n"), closed |-> closed[s], files |-> files,
          raised |-> TRUE]
    ELSE [out |-> out[s] \o CloseMsgs(s),
          closed |-> TRUE,
          files |-> IF keep THEN files ELSE Remove(files, StagedFile(s)),
          raised |-> ~keep /\ StagedFile(s) \notin DOMAIN files]

\* Session.send_save: the sends it makes, and whether an exception left it.
SendSave(s) ==
    IF ~Writable(s) THEN [out |-> out[s], raised |-> TRUE]
    ELSE IF ~HasToken(s) THEN [out |-> Append(out[s], "save\n"), raised |-> TRUE]
    ELSE IF StagedFile(s) \notin DOMAIN files
    THEN [out |-> out[s] \o <<"save\n", TokenLine(s)>>, raised |-> TRUE]
    ELSE [out |-> out[s] \o SaveMsgs(s, files[StagedFile(s)]), raised |-> FALSE]

\* SESSIONS[view.id()] = self
Register(reg, v, s) == Put(reg, v, s)

\* The views open_file may return for a file: a view that already shows it,
\* or a new one.
OpenFile(path) == {nextView} \cup {w \in DOMAIN views : views[w] = path}

\* The editor runs the on_done callback queued first.
OnDone ==
    /\ timeouts # <<>>
    /\ LET s == Head(timeouts)
       IN  \E v \in OpenFile(StagedFile(s)) :
             /\ timeouts' = Tail(timeouts)
             /\ view' = [view EXCEPT ![s] = v]
             /\ views' = Put(views, v, StagedFile(s))
             /\ nextView' = IF v = nextView THEN nextView + 1 ELSE nextView
             /\ IF v \in DOMAIN SESSIONS
                THEN LET previous == SESSIONS[v]
                         r == Close(previous, TRUE)
                     IN  /\ out' = [out EXCEPT ![previous] = r.out]
                         /\ closed' = [closed EXCEPT ![previous] = r.closed]
                         /\ files' = r.files
                         /\ closeCalls' = [closeCalls EXCEPT ![previous] = @ + 1]
                         /\ SESSIONS' = IF r.raised THEN SESSIONS
                                        ELSE Register(SESSIONS, v, s)
                ELSE /\ SESSIONS' = Register(SESSIONS, v, s)
                     /\ UNCHANGED <<out, closed, files, closeCalls>>
    /\ UNCHANGED <<pc, req, inbuf, net, eof, env, parse_done, total_size, done_size,
                   temp, local_dir, local_path, srvClosed, dirs, asyncQ, nsaves,
                   staged, stagings, scheduled, eofRead>>

\* The user saves the buffer of view v: the editor writes the file and queues
\* on_post_save_async.
EditorSave(v, data) ==
    /\ v \in DOMAIN views
    /\ nsaves < MaxSaves
    /\ nsaves' = nsaves + 1
    /\ files' = Put(files, views[v], data)
    /\ asyncQ' = Append(asyncQ, v)
    /\ UNCHANGED <<pc, req, inbuf, net, eof, env, parse_done, total_size, done_size,
                   temp, local_dir, local_path, out, closed, srvClosed, dirs,
                   timeouts, SESSIONS, views, nextView, view, closeCalls, staged,
                   stagings, scheduled, eofRead>>

\* RSubEventListener.on_post_save_async for the event queued first.
PostSave ==
    /\ asyncQ # <<>>
    /\ asyncQ' = Tail(asyncQ)
    /\ IF Head(asyncQ) \in DOMAIN SESSIONS
       THEN out' = [out EXCEPT ![SESSIONS[Head(asyncQ)]] = SendSave(SESSIONS[Head(asyncQ)]).out]
       ELSE out' = out
    /\ UNCHANGED <<pc, req, inbuf, net, eof, env, parse_done, total_size, done_size,
                   temp, local_dir, local_path, closed, srvClosed, files, dirs,
                   timeouts, SESSIONS, views, nextView, view, nsaves, closeCalls,
                   staged, stagings, scheduled, eofRead>>

\* The user closes view v: RSubEventListener.on_close.
OnClose(v) ==
    /\ v \in DOMAIN views
    /\ views' = Remove(views, v)
    /\ IF v \in DOMAIN SESSIONS
       THEN LET s == SESSIONS[v]
                r == Close(s, FALSE)
            IN  /\ SESSIONS' = Remove(SESSIONS, v)
                /\ out' = [out EXCEPT ![s] = r.out]
                /\ closed' = [closed EXCEPT ![s] = r.closed]
                /\ files' = r.files
                /\ closeCalls' = [closeCalls EXCEPT ![s] = @ + 1]
       ELSE UNCHANGED <<SESSIONS, out, closed, files, closeCalls>>
    /\ UNCHANGED <<pc, req, inbuf, net, eof, env, parse_done, total_size, done_size,
                   temp, local_dir, local_path, srvClosed, dirs, timeouts, nextView,
                   view, asyncQ, nsaves, staged, stagings, scheduled, eofRead>>

-----------------------------------------------------------------------------
(* Specifications.                                                         *)

\* Several connections, each sending one of the system requests.
Next ==
    \/ \E c \in Conns, r \in SysRequests : Connect(c, r)
    \/ \E c \in Conns : PeerClose(c)
    \/ \E c \in Conns : RunRead(c)
    \/ \E c \in Conns : DownloadRead(c)
    \/ OnDone
    \/ \E v \in DOMAIN views, data \in Edits : EditorSave(v, data)
    \/ PostSave
    \/ \E v \in DOMAIN views : OnClose(v)

Spec == Init /\ [][Next]_vars

\* One connection, sending any of the parser inputs.
ParseNext ==
    \/ \E r \in ParseRequests : Connect(1, r)
    \/ PeerSend(1)
    \/ PeerClose(1)
    \/ RunRead(1)
    \/ DownloadRead(1)
    \/ OnDone
    \/ \E v \in DOMAIN views, data \in Edits : EditorSave(v, data)
    \/ PostSave
    \/ \E v \in DOMAIN views : OnClose(v)

ParseSpec == Init /\ [][ParseNext]_vars

-----------------------------------------------------------------------------
(* Properties.                                                             *)

IsPrefix(a, b) == Len(a) <= Len(b) /\ a = SubSeq(b, 1, Len(a))

\* The sends a step adds to the socket of session s.
Written(s) == SubSeq(out'[s], Len(out[s]) + 1, Len(out'[s]))

\* The connection thread of c takes a step that reads from the stream.
Reads(c) == ReadReady(c) /\ Len(inbuf'[c]) < Len(inbuf[c])

IsDataLine(line) ==
    LET kv == Split1(Strip(line), ":") IN Len(kv) = 2 /\ Str(kv[1]) = "data"

\* C1: after `data: N` and a body of exactly N bytes, whatever its split into
\* lines, the staged file holds exactly those N bytes.
C1_BodyStagedByteForByte ==
    \A c \in Conns :
        (stagings[c] > 0 /\ Len(req[c].body) = total_size[c]) => staged[c] = req[c].body

\* C2: a `data` line that is the first and only header is ignored: no body
\* reading starts, nothing is staged, no editor open is scheduled and the read
\* loop keeps running.
C2_LoneDataIgnored ==
    [][\A c \in Conns :
          (pc[c] = "run" /\ Reads(c) /\ ~parse_done[c] /\ DOMAIN env[c] = {}
              /\ IsDataLine(LineOf(inbuf[c])))
          => (pc'[c] = "run" /\ stagings'[c] = stagings[c]
                /\ scheduled'[c] = scheduled[c])]_vars

\* C3: when the peer closes the stream after `data: N` and before N body bytes
\* arrived, the connection's handling ends: once the end of the stream has been
\* read, the body loop and run have returned, with no file staged, no editor
\* open scheduled and nothing sent after the greeting.
C3_PrematureEofEndsConnection ==
    \A c \in Conns :
        (eofRead[c] /\ "data" \in DOMAIN env[c] /\ ~parse_done[c])
        => (pc[c] = "returned" /\ stagings[c] = 0 /\ scheduled[c] = 0
              /\ out[c] = <<Greeting>>)

\* C8: before the body, a bare `open` line or a blank line changes neither the
\* headers nor the parser state, and the read loop goes on.
C8_OpenAndBlankLinesIgnored ==
    [][\A c \in Conns :
          (pc[c] = "run" /\ Reads(c) /\ ~parse_done[c] /\ LineOf(inbuf[c]) # <<>>
              /\ Strip(LineOf(inbuf[c])) \in {OpenWord, <<>>})
          => (env'[c] = env[c] /\ parse_done'[c] = parse_done[c]
                /\ stagings'[c] = stagings[c] /\ pc'[c] = "run")]_vars

\* C9: once N body bytes have been received after `data: N` the request
\* completes without further input from the peer: the body loop is never left
\* waiting in readline() for a newline or for the end of the stream.
C9_CompletesWithoutFurtherInput ==
    \A c \in Conns :
        (pc[c] = "body" /\ done_size[c] + Len(inbuf[c]) >= total_size[c]) => ReadReady(c)

\* C10: once the request is complete every further line is discarded: headers,
\* staged file and scheduled opens stay as they are, so a connection stages at
\* most one file and schedules at most one editor open.
C10_CompleteRequestDiscardsInput ==
    /\ [][\A c \in Conns :
            parse_done[c]
            => (env'[c] = env[c] /\ parse_done'[c] /\ pc'[c] # "body"
                  /\ stagings'[c] = stagings[c] /\ staged'[c] = staged[c]
                  /\ scheduled'[c] = scheduled[c])]_vars
    /\ [](\A c \in Conns : stagings[c] <= 1 /\ scheduled[c] <= 1)

\* A complete request after which a further `data` line was received and read.
C10_Witness ==
    \E c \in Conns :
        /\ parse_done[c] /\ pc[c] = "run"
        /\ req[c].tail = DataLine(0) /\ net[c] = <<>> /\ inbuf[c] = <<>>
        /\ Len(req[c].body) = total_size[c]
        /\ stagings[c] = 1 /\ scheduled[c] = 1

\* The close message for token tok, one element per send.
CloseMessage(tok) == <<"close\n", "token: " \o Str(tok) \o "\n", "\n">>

\* The save message for token tok and file content data, one element per send.
SaveMessage(tok, data) ==
    <<"save\n", "token: " \o Str(tok) \o "\n",
      "data: " \o Str(IntToStr(Len(data))) \o "\n", Str(data), "\n">>

\* The step is on_done of session n, and open_file returned view v.
Opened(n, v) == view[n] = 0 /\ view'[n] = v

\* C4: when on_done of a newer session resolves to a view id that is already
\* a key of SESSIONS, then afterwards the newer session, and no other, is
\* registered under that id, the older session has been sent the close
\* message and its socket is shut down and closed, and the older session's
\* staged file has not been deleted.  (Stated for older sessions whose request
\* carried a token.)
C4_DuplicateOpenReplacesOlder ==
    [][\A n \in Conns : \A v \in DOMAIN SESSIONS :
          (Opened(n, v) /\ "token" \in DOMAIN env[SESSIONS[v]])
          => LET older == SESSIONS[v]
             IN  /\ older # n
                 /\ SESSIONS' = [SESSIONS EXCEPT ![v] = n]
                 /\ Written(older) = CloseMessage(env[older]["token"])
                 /\ closed'[older]
                 /\ files' = files]_vars

\* The step calls Session.close on session s.
CloseCall(s) == closeCalls'[s] = closeCalls[s] + 1

SaveCall(s) ==
    /\ asyncQ # <<>> /\ asyncQ' = Tail(asyncQ)
    /\ Head(asyncQ) \in DOMAIN SESSIONS /\ SESSIONS[Head(asyncQ)] = s

C7_BufferClosedClosesSession ==
    [][\A v \in DOMAIN SESSIONS :
          (v \in DOMAIN views /\ v \notin DOMAIN views'
              /\ "token" \in DOMAIN env[SESSIONS[v]])
          => LET s == SESSIONS[v]
             IN  /\ Written(s) = CloseMessage(env[s]["token"])
                 /\ closed'[s] \/ srvClosed'[s]
                 /\ StagedFile(s) \notin DOMAIN files'
                 /\ v \notin DOMAIN SESSIONS']_vars

\* The step calls send_save or close on session s while its socket is shut
\* down, so that the first send of the call raises.
WriteFails(s) == (SaveCall(s) \/ CloseCall(s)) /\ (closed[s] \/ srvClosed[s])

\* C11: when a socket write fails during send_save or close, nothing more is
\* sent by that call and afterwards the session is no longer registered in
\* SESSIONS.
C11_WriteFailureEvicts ==
    [][\A s \in Conns :
          WriteFails(s)
          => /\ Written(s) = <<>>
             /\ \A v \in DOMAIN SESSIONS' : SESSIONS'[v] # s]_vars

\* The step is a readline() of run, before the body, that returns a line
\* which is not blank, is not `open` and holds no ":".
ReadsMalformed(c) ==
    /\ pc[c] = "run" /\ Reads(c) /\ ~parse_done[c]
    /\ Strip(LineOf(inbuf[c])) \notin {<<>>, OpenWord}
    /\ \A i \in 1..Len(LineOf(inbuf[c])) : LineOf(inbuf[c])[i] # ":"

\* C12: a non-blank, non-`open` line without ":" read before the body raises
\* out of Session.run and ends that connection's thread; the line records no
\* header, stages no file and schedules no editor open, and the step touches
\* no other connection, no session of the registry and nothing the editor
\* holds.
C12_MalformedLineEndsConnection ==
    [][\A c \in Conns :
          ReadsMalformed(c)
          => /\ pc'[c] = "raised"
             /\ env'[c] = env[c]
             /\ stagings'[c] = stagings[c] /\ scheduled'[c] = scheduled[c]
             /\ local_path'[c] = local_path[c]
             /\ files' = files /\ timeouts' = timeouts
             /\ \A d \in Conns \ {c} :
                    /\ pc'[d] = pc[d] /\ inbuf'[d] = inbuf[d]
                    /\ srvClosed'[d] = srvClosed[d] /\ env'[d] = env[d]
             /\ closed' = closed /\ out' = out
             /\ SESSIONS' = SESSIONS /\ views' = views /\ asyncQ' = asyncQ]_vars

\* A connection ended on a malformed line while another connection had its
\* file opened and registered, and still reads.
C12_Witness ==
    \E c, d \in Conns :
        /\ c # d
        /\ pc[c] = "raised" /\ env[c] # Empty /\ "data" \notin DOMAIN env[c]
        /\ stagings[c] = 0 /\ scheduled[c] = 0
        /\ pc[d] = "run" /\ \E v \in DOMAIN SESSIONS : SESSIONS[v] = d

\* The session is Ready or later: its body has been received and staged
\* (run has set parse_done), or Session.close has closed it.
ReadyOrLater(c) == parse_done[c] \/ closed[c]

\* C13: in every reachable state local_path is set if and only if the session
\* is Ready or later; it is unset while the session awaits headers or is
\* still reading the body.
C13_LocalPathIffReady ==
    \A c \in Conns : (local_path[c] # <<>>) <=> ReadyOrLater(c)

\* C14: once Session.close has shut down and closed a session's socket, no
\* step reads bytes from that socket's stream and no step sends on it,
\* whichever of the connection thread, the save callback, the close callback
\* and on_done's eviction takes the step.
C14_NoSocketUseAfterClose ==
    [][\A c \in Conns :
          closed[c] => (~Reads(c) /\ out'[c] = out[c]
                        /\ ~SaveCall(c) /\ ~CloseCall(c))]_vars

\* A live session: its file is staged and its socket is open at both ends.
Live(s) == parse_done[s] /\ ~closed[s] /\ ~srvClosed[s] /\ ~eof[s]

\* C15: in every reachable state no two live sessions have the same
\* local_path, also when two connections request the same remote file.
C15_StagedFilesNotShared ==
    \A c, d \in Conns :
        (c # d /\ Live(c) /\ Live(d)) => StagedFile(c) # StagedFile(d)

\* The step is a readline() of connection c: it takes bytes from the stream
\* or finds its end.
ReadStep(c) == Len(inbuf'[c]) < Len(inbuf[c]) \/ (eofRead'[c] /\ ~eofRead[c])

\* The sends on connection c that are the greeting line.
Greetings(c) ==
    {i \in 1..Len(out[c]) : out[c][i] = "Sublime Text " \o Version \o " (rsub plugin)\n"}

\* C16: for every accepted connection the greeting line
\* `Sublime Text <version> (rsub plugin)\n` is sent exactly once, as the
\* first send on the socket, and no read of the connection's stream happens
\* before it has been sent.
C16_GreetingOnceBeforeFirstRead ==
    /\ [](\A c \in Conns : pc[c] # "idle" => Greetings(c) = {1})
    /\ [](\A c \in Conns : pc[c] = "idle" => (out[c] = <<>> /\ ~eofRead[c] /\ env[c] = Empty))
    /\ [][\A c \in Conns : ReadStep(c) => Greetings(c) = {1}]_vars
    /\ [][\A c \in Conns : pc[c] = "idle" => (inbuf'[c] = inbuf[c] \/ Greetings(c)' = {1})]_vars

\* A connection whose request has been read and answered with a save
\* message after the greeting.
C16_Witness ==
    \E c \in Conns :
        /\ parse_done[c] /\ inbuf[c] = <<>>
        /\ Len(out[c]) > 1 /\ out[c][2] = "save\n"
        /\ Greetings(c) = {1}

\* display-name = <label>:<display-path>
LabelOf(display) == Split1(display, ":")[1]

DisplayPathOf(display) == Split1(display, ":")[2]

\* root / label / dirname(real-path without its leading "/") / basename(display-path)
DerivedPath(display, real) ==
    JoinPath(JoinPath(JoinPath(session_dir, PathOf(LabelOf(display))),
                      Parent(PathOf(LStripSlash(real)))),
             PathOf(BaseName(DisplayPathOf(display))))

\* C17: the staged local path is root / label / dirname(real-path with its
\* leading "/" stripped) / basename(display-path), a function of the two
\* headers alone; display-name `h:/d/f` with real-path `/d/f` gives
\* root/h/d/f, and display-name `h:/x/g` with real-path `/d/f` gives
\* root/h/d/g.
C17_StagedPathDerivation ==
    \A c \in Conns :
        local_path[c] # <<>>
        => /\ local_path[c][1] = DerivedPath(env[c]["display-name"], env[c]["real-path"])
           /\ (env[c]["display-name"] = V_display_f /\ env[c]["real-path"] = V_real_f)
                => local_path[c][1] = [root |-> TRUE, parts |-> session_dir.parts \o <<"h", "d", "f">>]
           /\ (env[c]["display-name"] = V_display_xg /\ env[c]["real-path"] = V_real_f)
                => local_path[c][1] = [root |-> TRUE, parts |-> session_dir.parts \o <<"h", "d", "g">>]
           /\ (env[c]["display-name"] = V_display_rel /\ env[c]["real-path"] = V_real_rel)
                => local_path[c][1] = [root |-> TRUE, parts |-> session_dir.parts \o <<"h", "f">>]

\* A file staged at root/h/d/g for display-name `h:/x/g`, real-path `/d/f`.
C17_Witness ==
    \E c \in Conns :
        /\ stagings[c] = 1
        /\ env[c]["display-name"] = V_display_xg /\ env[c]["real-path"] = V_real_f
        /\ Resolve(local_path[c][1]) \in DOMAIN files

\* Session s is a value of SESSIONS.
Registered(reg, s) == \E v \in DOMAIN reg : reg[v] = s

\* Session s has an on_done waiting in the editor's timeout queue.
Queued(q, s) == \E i \in 1..Len(q) : q[i] = s

\* C18: for every session the file is renamed into place at local_path
\* first; the connection thread then only queues on_done for the editor and
\* touches neither the views nor SESSIONS; on_done, run by the editor from
\* its queue, obtains the view and only then inserts the session.  A session
\* is never a value of SESSIONS before its file has been staged and the
\* editor has returned a view for it.
C18_StageThenOpenThenRegister ==
    /\ [](\A v \in DOMAIN SESSIONS :
             LET s == SESSIONS[v]
             IN  /\ stagings[s] = 1 /\ parse_done[s] /\ scheduled[s] = 1
                 /\ view[s] = v /\ ~Queued(timeouts, s))
    /\ [](\A s \in Conns :
             Queued(timeouts, s)
             => (stagings[s] = 1 /\ view[s] = 0 /\ ~Registered(SESSIONS, s)))
    /\ [][\A s \in Conns :
             stagings'[s] # stagings[s]
             => /\ StagedFile(s)' \in DOMAIN files'
                /\ timeouts' = Append(timeouts, s)
                /\ view' = view /\ views' = views /\ SESSIONS' = SESSIONS]_vars
    /\ [][\A s \in Conns :
             (Registered(SESSIONS', s) /\ ~Registered(SESSIONS, s))
             => /\ timeouts # <<>> /\ Head(timeouts) = s /\ timeouts' = Tail(timeouts)
                /\ view[s] = 0 /\ view'[s] \in DOMAIN views'
                /\ SESSIONS'[view'[s]] = s
                /\ pc' = pc /\ stagings' = stagings]_vars

\* A session registered under the view the editor returned for its staged
\* file, with a second session's on_done still queued.
C18_Witness ==
    \E s, n \in Conns :
        /\ s # n
        /\ stagings[s] = 1 /\ view[s] \in DOMAIN SESSIONS /\ SESSIONS[view[s]] = s
        /\ Queued(timeouts, n) /\ stagings[n] = 1

\* C19: over every sequence of connection, buffer-opened, buffer-saved and
\* buffer-closed events, also when socket writes fail, Session.close is
\* called at most once on any session.  (Stated for sessions whose request
\* carried a token.)
C19_CloseAtMostOnce ==
    \A s \in Conns : "token" \in DOMAIN env[s] => closeCalls[s] <= 1

\* The file-system object with these components lies in session_dir.
Inside(parts) == IsPrefix(Resolve(session_dir), parts)

\* C20: for every value of the display-name and real-path headers, the
\* local_path _download computes, every file it stages and every directory
\* it creates lie inside session_dir.
C20_StagedPathInsideSessionDir ==
    /\ \A c \in Conns : local_path[c] # <<>> => Inside(Resolve(local_path[c][1]))
    /\ \A f \in DOMAIN files : Inside(f)
    /\ \A d \in dirs : Inside(d) \/ IsPrefix(d, Resolve(session_dir))

====
